---- MODULE Spec2Model ----
(***************************************************************************)
(* Chaser Agent: the chaser queue, the dispatch cycle of the scheduler,    *)
(* the delivery callbacks and the task update endpoint.                    *)
(*                                                                         *)
(* The store (tasks, chaser_queue, chaser_logs) is one shared state; every *)
(* handler is an async function, so it is split at its awaits: one action  *)
(* per store or sink round trip, and the steps of different handlers and   *)
(* dispatch cycles interleave freely.                                      *)
(***************************************************************************)
EXTENDS Integers, Sequences, FiniteSets, TLC

\* ---------------------------------------------------------------- bounds
\* rows of chaser_queue
NEntries == 3
\* the last instant of the clock
MaxClock == 1
\* async invocations (dispatch cycles, HTTP handlers) in progress at once
MaxInFlight == 2
\* invocations (dispatch cycles, callbacks, task updates) begun in a run
MaxStarts == 3

\* ------------------------------------------------------ program constants
\* .limit(5) of the due-entries query
BatchLimit == 5

\* SQL NULL of a nullable timestamp column; an absent field of a request body
NULL == 0 - 1
\* new Date(x) of a string that is no date
InvalidDate == 0 - 2

Tasks == {1, 2}
Entries == 1..NEntries
Slots == 1..MaxInFlight
\* the instants of the clock, which are also the dates a body can carry
Instants == 0..MaxClock

\* a queue id no row of chaser_queue has
UnknownId == 0

\* how far, in milliseconds, a due date lies from a whole hour
MaxSkew == 1

EntryStatus == {"pending", "triggered", "sent", "failed", "cancelled"}

VARIABLES
    clock,      \* the current time (new Date())
    tasks,      \* table tasks: id -> row
    queue,      \* table chaser_queue: id -> row
    logs,       \* table chaser_logs, in insertion order
    cycles,     \* slot -> the invocation of processPendingChasers it runs
    handlers,   \* slot -> the HTTP handler (callback, task update) it runs
    rpcDefined, \* whether the database has a function increment_chaser_count
    started,    \* how many invocations have begun
    creation,   \* the POST /api/tasks request being served, and its answer
    sink        \* queue id -> the outcome callbacks the sink still owes

vars == <<clock, tasks, queue, logs, cycles, handlers, rpcDefined, started, creation, sink>>

\* ------------------------------------------------------------ the layout
\* Owner and scheduled instant of the queue rows present at start.
\* Two tasks; the first two rows belong to task 1 and are scheduled at the
\* same instant, the others belong to task 2 and are scheduled last.
TaskOf(e) == IF e <= 2 THEN 1 ELSE 2
ScheduledOf(e) == IF e <= 2 THEN 0 ELSE MaxClock

\* no request in flight
NoRequest == [queue_id |-> UnknownId, task_id |-> 0, entry_status |-> "none", task_status |-> "none"]
\* cycles[c]: where invocation c of processPendingChasers stands, the rows of
\* its batch it has not finished (the current one first) and, while it awaits
\* the sink, the request it posted
IdleCycle == [pc |-> "idle", batch |-> <<>>, request |-> NoRequest]
\* handlers[h]: the handler slot h runs and where it stands; of a callback
\* the queue id and sent_at of its body, the task and status of the entry
\* it fetched, and its sentTimestamp; of a task update the task and the
\* status it had when the handler fetched it
IdleHandler ==
    [kind |-> "none", pc |-> "idle", qid |-> UnknownId, sent_at |-> NULL,
     task_id |-> 0, was |-> "none", ts |-> NULL]

\* creation: where the handler of POST /api/tasks stands, the due date it
\* parsed, the id of the task it inserted, whether the sink took the
\* calendar request, the reference time and the entries of the planner,
\* whether the insert into chaser_queue answered with an error, and the
\* status of its answer.
NoCreation ==
    [pc |-> "idle", due |-> NULL, task_id |-> 0, calendar |-> "none",
     now |-> NULL, chasers |-> <<>>, chaserError |-> FALSE, reply |-> 0]

Init ==
    /\ clock = 0
    /\ tasks = [t \in Tasks |->
                 [status |-> "pending", total_chasers_sent |-> 0,
                  last_chaser_sent_at |-> NULL]]
    /\ queue = [e \in Entries |->
                 [task_id |-> TaskOf(e), scheduled_at |-> ScheduledOf(e),
                  status |-> "pending", sent_at |-> NULL, last_attempt_at |-> NULL]]
    /\ logs = <<>>
    /\ cycles = [c \in Slots |-> IdleCycle]
    /\ handlers = [h \in Slots |-> IdleHandler]
    /\ rpcDefined \in BOOLEAN
    /\ started = 0
    /\ creation = NoCreation
    /\ sink = [e \in DOMAIN queue |-> 0]

\* ------------------------------------------------------------- helpers
Min(S) == CHOOSE x \in S : \A y \in S : x <= y
MinOf(a, b) == IF a <= b THEN a ELSE b

\* At most MaxInFlight invocations are in progress; a new dispatch cycle
\* (HTTP handler) takes the first free slot of cycles (of handlers).
InFlight ==
    Cardinality({x \in Slots : cycles[x].pc # "idle"})
        + Cardinality({x \in Slots : handlers[x].pc # "idle"})
FirstFree(f) == Min({x \in Slots : f[x].pc = "idle"})
CanBegin(f, x) == InFlight < MaxInFlight /\ x = FirstFree(f)

\* An invocation begins in slot x of f.
Begin(f, x) ==
    /\ CanBegin(f, x)
    /\ started < MaxStarts
    /\ started' = started + 1

\* ------------------------------------------------------------ the clock
Tick ==
    /\ clock < MaxClock
    /\ clock' = clock + 1
    /\ UNCHANGED <<tasks, queue, logs, cycles, handlers, rpcDefined, started, creation, sink>>

\* ---------------------------------------------------- the dispatch cycle
\* The filter of the due-entries query:
\* .eq('status', 'pending').lte('scheduled_at', now)
IsDue(row, now) == row.status = "pending" /\ row.scheduled_at <= now

\* The other direction of the order, { ascending: false }.
Descending(s, q) ==
    \A i \in DOMAIN s : \A j \in DOMAIN s :
        i < j => q[s[i]].scheduled_at >= q[s[j]].scheduled_at

\* .order('scheduled_at', { ascending: true }): rows with equal scheduled_at
\* come in an order the database chooses.
Ascending(s, q) ==
    \A i \in DOMAIN s : \A j \in DOMAIN s :
        i < j => q[s[i]].scheduled_at <= q[s[j]].scheduled_at

\* The results the query can return: the first BatchLimit due rows in
\* ascending order of scheduled_at.
DueBatches(q, now) ==
    LET due == {e \in DOMAIN q : IsDue(q[e], now)}
        n == MinOf(BatchLimit, Cardinality(due))
    IN {s \in [1..n -> due] :
          /\ \A i \in 1..n : \A j \in 1..n : i # j => s[i] # s[j]
          /\ Ascending(s, q)
          /\ \A e \in due \ {s[i] : i \in 1..n} :
                \A i \in 1..n : q[s[i]].scheduled_at <= q[e].scheduled_at}

\* The embedded select tasks(...): each row carries the task as it was when
\* the query ran.
Joined(s, q, t) ==
    [i \in DOMAIN s |-> [id |-> s[i], task_status |-> t[q[s[i]].task_id].status]]

\* The row of the batch the loop is at.
Current(cy) == Head(cy.batch)

\* A loop that ends at the first row it has handled.
AdvanceStop(cy) == IdleCycle

\* A loop that stays at the row it has handled.
AdvanceStay(cy) == [pc |-> "loop", batch |-> cy.batch, request |-> NoRequest]

\* The end of one loop iteration: the next row, or the end of the cycle.
Advance(cy) ==
    IF Len(cy.batch) <= 1
    THEN IdleCycle
    ELSE [pc |-> "loop", batch |-> Tail(cy.batch), request |-> NoRequest]

\* A tick of cron.schedule or the start-up setTimeout calls
\* processPendingChasers, with no regard to a cycle still running: the query.
SelectBatch(c) ==
    /\ \E s \in DueBatches(queue, clock) :
          IF Len(s) = 0
          THEN CanBegin(cycles, c) /\ UNCHANGED <<cycles, started>>
          ELSE /\ Begin(cycles, c)
               /\ cycles' = [cycles EXCEPT ![c] =
                    [pc |-> "loop", batch |-> Joined(s, queue, tasks),
                     request |-> NoRequest]]
    /\ UNCHANGED <<clock, tasks, queue, logs, handlers, rpcDefined, creation, sink>>

\* .update({ status: 'cancelled' }).eq('id', chaser.id)
CancelledUpdate(row) == [row EXCEPT !.status = "cancelled"]

\* if (chaser.tasks?.status === 'completed'): cancel the row and continue.
SkipCompleted(c) ==
    /\ cycles[c].pc = "loop"
    /\ Current(cycles[c]).task_status = "completed"
    /\ queue' = [queue EXCEPT ![Current(cycles[c]).id] = CancelledUpdate(@)]
    /\ cycles' = [cycles EXCEPT ![c] = Advance(@)]
    /\ UNCHANGED <<clock, tasks, logs, handlers, rpcDefined, started, creation, sink>>

\* The request of axios.post(bolticWebhookUrl, payload), with the state of
\* the row and of its task in the store at the moment it is sent.
Request(id, q, t) ==
    [queue_id |-> id, task_id |-> q[id].task_id,
     entry_status |-> q[id].status, task_status |-> t[q[id].task_id].status]

\* Otherwise the payload is built from the row of the batch and posted.
PostWebhook(c) ==
    /\ cycles[c].pc = "loop"
    /\ Current(cycles[c]).task_status # "completed"
    /\ cycles' = [cycles EXCEPT ![c].pc = "waiting",
                                ![c].request = Request(Current(cycles[c]).id, queue, tasks)]
    /\ UNCHANGED <<clock, tasks, queue, logs, handlers, rpcDefined, started, creation, sink>>

\* The awaited post resolves (a 2xx answer) or throws (timeout after 10 s,
\* network error, any other status).
WebhookResponse(c, accepted) ==
    /\ cycles[c].pc = "waiting"
    /\ cycles' = [cycles EXCEPT ![c].pc = IF accepted THEN "accepted" ELSE "failed",
                                ![c].request = NoRequest]
    /\ UNCHANGED <<clock, tasks, queue, logs, handlers, rpcDefined, started, creation, sink>>

\* An update that records the delivery at once, as a dispatcher that sent
\* the emails itself would.
TriggeredUpdateSent(row, at) == [row EXCEPT !.status = "sent", !.last_attempt_at = at]

\* .update({ status: 'triggered', last_attempt_at: new Date() }).eq('id', id)
TriggeredUpdate(row, at) == [row EXCEPT !.status = "triggered", !.last_attempt_at = at]

MarkTriggered(c) ==
    /\ cycles[c].pc = "accepted"
    /\ queue' = [queue EXCEPT ![Current(cycles[c]).id] = TriggeredUpdate(@, clock)]
    /\ cycles' = [cycles EXCEPT ![c] = Advance(@)]
    /\ UNCHANGED <<clock, tasks, logs, handlers, rpcDefined, started, creation, sink>>

\* An update that gives the entry up after one failed request.
AttemptUpdateFailed(row, at) == [row EXCEPT !.status = "failed", !.last_attempt_at = at]

\* catch (webhookError): .update({ last_attempt_at: new Date() }).eq('id', id)
AttemptUpdate(row, at) == [row EXCEPT !.last_attempt_at = at]

RecordAttempt(c) ==
    /\ cycles[c].pc = "failed"
    /\ queue' = [queue EXCEPT ![Current(cycles[c]).id] = AttemptUpdate(@, clock)]
    /\ cycles' = [cycles EXCEPT ![c] = Advance(@)]
    /\ UNCHANGED <<clock, tasks, logs, handlers, rpcDefined, started, creation, sink>>

processPendingChasers ==
    \E c \in Slots :
        \/ SelectBatch(c)
        \/ SkipCompleted(c)
        \/ PostWebhook(c)
        \/ \E accepted \in BOOLEAN : WebhookResponse(c, accepted)
        \/ MarkTriggered(c)
        \/ RecordAttempt(c)

\* -------------------------------------------- POST .../chaser-sent
\* new Date(sent_at): the instant a date string denotes, or Invalid Date.
\* Timestamps are instants at the granularity of the clock, the one the
\* columns (TIMESTAMPTZ) and toISOString keep; the textual form is not kept.
ParseDate(x) == IF x \in Instants THEN x ELSE InvalidDate

\* A timestamp that disregards the sent_at of the body.
SentTimestampNow(sent_at, now) == now

\* sent_at ? new Date(sent_at).toISOString() : new Date().toISOString()
\* (toISOString of Invalid Date throws a RangeError)
SentTimestamp(sent_at, now) == IF sent_at # NULL THEN ParseDate(sent_at) ELSE now

\* .update({ status: 'sent', sent_at: sentTimestamp }).eq('id', queue_id)
SentUpdate(row, ts) == [row EXCEPT !.status = "sent", !.sent_at = ts]

\* A handler that goes on to its writes without the row it looked for.
NotFoundIgnored(kind) == [IdleHandler EXCEPT !.kind = kind, !.pc = "log"]

\* if (fetchError || !queueEntry): the handler that found no row for the
\* queue id and is about to answer.
NotFound(kind) == [IdleHandler EXCEPT !.kind = kind, !.pc = "notfound"]

\* return errorResponse(res, 404, 'Queue entry not found')
ChaserSentNotFound(h) ==
    /\ handlers[h].kind = "chaser-sent"
    /\ handlers[h].pc = "notfound"
    /\ handlers' = [handlers EXCEPT ![h] = IdleHandler]
    /\ UNCHANGED <<clock, tasks, queue, logs, cycles, rpcDefined, started, creation, sink>>

\* The fetch of the queue entry (404 when there is none) and the update of
\* chaser_queue.
ChaserSentQueue(h, queue_id, sent_at) ==
    /\ IF queue_id \notin DOMAIN queue
       THEN /\ Begin(handlers, h)
            /\ handlers' = [handlers EXCEPT ![h] = NotFound("chaser-sent")]
            /\ UNCHANGED queue
       ELSE IF SentTimestamp(sent_at, clock) = InvalidDate
       THEN CanBegin(handlers, h) /\ UNCHANGED <<queue, handlers, started>>
       ELSE /\ Begin(handlers, h)
            /\ queue' = [queue EXCEPT ![queue_id] =
                            SentUpdate(@, SentTimestamp(sent_at, clock))]
            /\ handlers' = [handlers EXCEPT ![h] =
                    [kind |-> "chaser-sent", pc |-> "log", qid |-> queue_id,
                     sent_at |-> sent_at,
                     task_id |-> queue[queue_id].task_id,
                     was |-> queue[queue_id].status,
                     ts |-> SentTimestamp(sent_at, clock)]]
    /\ UNCHANGED <<clock, tasks, logs, cycles, rpcDefined, creation, sink>>

\* The row inserted into chaser_logs.
SentLogRow(task_id, queue_id, ts) ==
    [task_id |-> task_id, queue_id |-> queue_id, sent_at |-> ts, status |-> "sent"]

\* A log write that keeps one row per queue id, replacing the earlier one.
ChaserSentLogUpsert(h) ==
    /\ handlers[h].kind = "chaser-sent"
    /\ handlers[h].pc = "log"
    /\ logs' = Append(SelectSeq(logs, LAMBDA r : r.queue_id # handlers[h].qid),
                      SentLogRow(handlers[h].task_id, handlers[h].qid, handlers[h].ts))
    /\ handlers' = [handlers EXCEPT ![h].pc = "task"]
    /\ UNCHANGED <<clock, tasks, queue, cycles, rpcDefined, started, creation, sink>>

ChaserSentLog(h) ==
    /\ handlers[h].kind = "chaser-sent"
    /\ handlers[h].pc = "log"
    /\ logs' = Append(logs, SentLogRow(handlers[h].task_id, handlers[h].qid, handlers[h].ts))
    /\ handlers' = [handlers EXCEPT ![h].pc = "task"]
    /\ UNCHANGED <<clock, tasks, queue, cycles, rpcDefined, started, creation, sink>>

\* .update({ total_chasers_sent: undefined, last_chaser_sent_at: sentTimestamp })
\* (supabase.rpc is a function, so the counter is left out of the update)
TaskSentUpdate(row, ts) == [row EXCEPT !.last_chaser_sent_at = ts]

ChaserSentTask(h) ==
    /\ handlers[h].kind = "chaser-sent"
    /\ handlers[h].pc = "task"
    /\ tasks' = [tasks EXCEPT ![handlers[h].task_id] = TaskSentUpdate(@, handlers[h].ts)]
    /\ handlers' = [handlers EXCEPT ![h].pc = "rpc"]
    /\ UNCHANGED <<clock, queue, logs, cycles, rpcDefined, started, creation, sink>>

\* The database function the handler calls; no file of the repository
\* defines it.
increment_chaser_count(row) == [row EXCEPT !.total_chasers_sent = @ + 1]

\* supabase.rpc('increment_chaser_count', ...).catch(...): with the function
\* in the database the count goes up by one. Without it the call answers
\* with an error, and the handler's other path writes nothing: its update
\* of tasks is built but never awaited, so it is never sent.
RpcIncrement(row, defined) == IF defined THEN increment_chaser_count(row) ELSE row

ChaserSentRpc(h) ==
    /\ handlers[h].kind = "chaser-sent"
    /\ handlers[h].pc = "rpc"
    /\ tasks' = [tasks EXCEPT ![handlers[h].task_id] = RpcIncrement(@, rpcDefined)]
    /\ handlers' = [handlers EXCEPT ![h] = IdleHandler]
    /\ UNCHANGED <<clock, queue, logs, cycles, rpcDefined, started, creation, sink>>

ChaserSent ==
    \E h \in Slots :
        \/ \E queue_id \in Entries \cup {UnknownId} :
             \E sent_at \in Instants \cup {NULL, InvalidDate} :
                ChaserSentQueue(h, queue_id, sent_at)
        \/ ChaserSentNotFound(h)
        \/ ChaserSentLog(h)
        \/ ChaserSentTask(h)
        \/ ChaserSentRpc(h)

\* An update that puts the entry back in line for another attempt.
FailedUpdateRetry(row, now) == [row EXCEPT !.status = "pending", !.last_attempt_at = now]

\* ------------------------------------------ POST .../chaser-failed
\* .update({ status: 'failed', last_attempt_at: new Date() }).eq('id', queue_id)
FailedUpdate(row, now) == [row EXCEPT !.status = "failed", !.last_attempt_at = now]

\* return errorResponse(res, 404, 'Queue entry not found')
ChaserFailedNotFound(h) ==
    /\ handlers[h].kind = "chaser-failed"
    /\ handlers[h].pc = "notfound"
    /\ handlers' = [handlers EXCEPT ![h] = IdleHandler]
    /\ UNCHANGED <<clock, tasks, queue, logs, cycles, rpcDefined, started, creation, sink>>

ChaserFailedQueue(h, queue_id) ==
    /\ IF queue_id \notin DOMAIN queue
       THEN /\ Begin(handlers, h)
            /\ handlers' = [handlers EXCEPT ![h] = NotFound("chaser-failed")]
            /\ UNCHANGED queue
       ELSE /\ Begin(handlers, h)
            /\ queue' = [queue EXCEPT ![queue_id] = FailedUpdate(@, clock)]
            /\ handlers' = [handlers EXCEPT ![h] =
                    [kind |-> "chaser-failed", pc |-> "log", qid |-> queue_id,
                     sent_at |-> NULL,
                     task_id |-> queue[queue_id].task_id,
                     was |-> queue[queue_id].status, ts |-> NULL]]
    /\ UNCHANGED <<clock, tasks, logs, cycles, rpcDefined, creation, sink>>

FailedLogRow(task_id, queue_id, now) ==
    [task_id |-> task_id, queue_id |-> queue_id, sent_at |-> now, status |-> "failed"]

ChaserFailedLog(h) ==
    /\ handlers[h].kind = "chaser-failed"
    /\ handlers[h].pc = "log"
    /\ logs' = Append(logs, FailedLogRow(handlers[h].task_id, handlers[h].qid, clock))
    /\ handlers' = [handlers EXCEPT ![h] = IdleHandler]
    /\ UNCHANGED <<clock, tasks, queue, cycles, rpcDefined, started, creation, sink>>

ChaserFailed ==
    \E h \in Slots :
        \/ \E queue_id \in Entries \cup {UnknownId} : ChaserFailedQueue(h, queue_id)
        \/ ChaserFailedNotFound(h)
        \/ ChaserFailedLog(h)

\* ------------------------------------------------ PATCH /api/tasks/:id
\* An update that starts the counter of the task again.
TaskUpdateReset(row, status) ==
    IF status = "none" THEN row
    ELSE [row EXCEPT !.status = status, !.total_chasers_sent = 0]

\* if (updates.status) updateData.status = updates.status
TaskUpdate(row, status) == IF status = "none" THEN row ELSE [row EXCEPT !.status = status]

\* The fetch of the task and the update of tasks.
PatchTask(h, id, status) ==
    /\ id \in DOMAIN tasks
    /\ IF status = "none"
       THEN CanBegin(handlers, h) /\ UNCHANGED <<tasks, handlers, started>>
       ELSE /\ Begin(handlers, h)
            /\ tasks' = [tasks EXCEPT ![id] = TaskUpdate(@, status)]
            /\ IF status = "completed"
               THEN handlers' = [handlers EXCEPT ![h] =
                        [kind |-> "patch", pc |-> "cancel", qid |-> UnknownId,
                         sent_at |-> NULL, task_id |-> id,
                         was |-> tasks[id].status, ts |-> NULL]]
               ELSE UNCHANGED handlers
    /\ UNCHANGED <<clock, queue, logs, cycles, rpcDefined, creation, sink>>

\* The bulk update without .eq('status', 'pending').
CancelEveryStatus(q, id) ==
    [e \in DOMAIN q |->
        IF q[e].task_id = id THEN [q[e] EXCEPT !.status = "cancelled"] ELSE q[e]]

\* .update({ status: 'cancelled' }).eq('task_id', id).eq('status', 'pending')
CancelPending(q, id) ==
    [e \in DOMAIN q |->
        IF q[e].task_id = id /\ q[e].status = "pending"
        THEN [q[e] EXCEPT !.status = "cancelled"]
        ELSE q[e]]

\* if (updates.status === 'completed'): cancel the pending chasers.
PatchCancel(h) ==
    /\ handlers[h].kind = "patch"
    /\ handlers[h].pc = "cancel"
    /\ queue' = CancelPending(queue, handlers[h].task_id)
    /\ handlers' = [handlers EXCEPT ![h] = IdleHandler]
    /\ UNCHANGED <<clock, tasks, logs, cycles, rpcDefined, started, creation, sink>>

Patch ==
    \E h \in Slots :
        \/ \E id \in Tasks : \E status \in {"none", "pending", "completed"} :
                PatchTask(h, id, status)
        \/ PatchCancel(h)

\* ----------------------------------------------------- POST /api/tasks
MsPerMinute == 60 * 1000
MsPerHour == 60 * 60 * 1000

\* The hours between a due date and the reference time that a request
\* carries: overdue, and about each offset of the tiers.
DueHours == {0 - 1, 1, 4, 12, 24, 30}

\* The due dates a request can carry, in milliseconds from the start of the
\* clock: within MaxSkew of the whole hours of DueHours, and 20 minutes.
DueDates ==
    {k * MsPerHour + s : k \in DueHours, s \in (0 - MaxSkew)..MaxSkew}
        \cup {20 * MsPerMinute}

\* new Date(due_date); isNaN(dueDateTime.getTime())
DueDateTime(due_date) == IF due_date \in DueDates THEN due_date ELSE InvalidDate

\* const escalationTiers
EscalationTiers ==
    << [tier |-> 1, hoursBeforeDue |-> 24],
       [tier |-> 2, hoursBeforeDue |-> 12],
       [tier |-> 3, hoursBeforeDue |-> 4],
       [tier |-> 4, hoursBeforeDue |-> 1] >>

\* A chaser time on the wrong side of the due date.
ChaserTimeAfter(due, hoursBeforeDue) == due + hoursBeforeDue * MsPerHour

\* new Date(dueDateTime.getTime() - tierConfig.hoursBeforeDue * 60 * 60 * 1000)
ChaserTime(due, hoursBeforeDue) == due - hoursBeforeDue * MsPerHour

\* A test that lets through the chaser time that is the reference time.
NotPast(chaserTime, now) == chaserTime >= now

\* if (chaserTime > now)
InFuture(chaserTime, now) == chaserTime > now

\* The entry pushed for a tier.
TierChaser(task_id, assignee_email, due, tierConfig) ==
    [task_id |-> task_id,
     scheduled_at |-> ChaserTime(due, tierConfig.hoursBeforeDue),
     recipient_email |-> assignee_email,
     status |-> "pending", escalation_tier |-> tierConfig.tier]

\* A fallback entry scheduled at the reference time itself.
FallbackChaserNow(task_id, assignee_email, now) ==
    [task_id |-> task_id, scheduled_at |-> now,
     recipient_email |-> assignee_email,
     status |-> "pending", escalation_tier |-> 4]

\* The entry pushed if (scheduledChasers.length === 0).
FallbackChaser(task_id, assignee_email, now) ==
    [task_id |-> task_id, scheduled_at |-> now + MsPerMinute,
     recipient_email |-> assignee_email,
     status |-> "pending", escalation_tier |-> 4]

\* scheduledChasers: the planner, from the due date and the reference time.
ScheduledChasers(task_id, assignee_email, due, now) ==
    LET future == SelectSeq(EscalationTiers,
                    LAMBDA tc : InFuture(ChaserTime(due, tc.hoursBeforeDue), now))
        rows == [i \in DOMAIN future |->
                    TierChaser(task_id, assignee_email, due, future[i])]
    IN IF Len(rows) = 0
       THEN <<FallbackChaser(task_id, assignee_email, now)>>
       ELSE rows

\* assignee_email.trim().toLowerCase() of the body of a creation request,
\* and the one of a later update.
Assignee == "first"
NewAssignee == "second"

\* The row of tasks an insert creates, with the defaults of its columns.
TaskRow(assignee_email, due) ==
    [status |-> "pending", total_chasers_sent |-> 0,
     last_chaser_sent_at |-> NULL, due_date |-> due, calendar_event_id |-> NULL,
     assignee_email |-> assignee_email, has_conflict |-> FALSE]

\* The row of chaser_queue an insert creates, with the defaults of its
\* columns.
QueueRow(chaser) ==
    [task_id |-> chaser.task_id, scheduled_at |-> chaser.scheduled_at,
     recipient_email |-> chaser.recipient_email,
     status |-> chaser.status, escalation_tier |-> chaser.escalation_tier,
     sent_at |-> NULL, last_attempt_at |-> NULL]

\* The answer that ends the request.
Reply(status) == [NoCreation EXCEPT !.pc = "done", !.reply = status]

\* Validation of the body and the insert into tasks, which the store
\* performs or answers with an error.
CreateTaskInsert(wellFormed, due_date, stored) ==
    /\ creation.pc = "idle"
    /\ IF ~wellFormed \/ due_date = NULL \/ DueDateTime(due_date) = InvalidDate
       THEN creation' = Reply(400) /\ UNCHANGED tasks
       ELSE IF ~stored
       THEN creation' = Reply(500) /\ UNCHANGED tasks
       ELSE /\ tasks' = Append(tasks, TaskRow(Assignee, DueDateTime(due_date)))
            /\ creation' = [NoCreation EXCEPT !.pc = "calendar",
                                !.due = DueDateTime(due_date),
                                !.task_id = Len(tasks) + 1]
    /\ UNCHANGED <<clock, queue, logs, cycles, handlers, rpcDefined, started, sink>>

\* A calendar step that gives the request up when the sink fails.
CreateTaskCalendarStrict(accepted) ==
    /\ creation.pc = "calendar"
    /\ creation' = IF accepted
                   THEN [creation EXCEPT !.pc = "plan", !.calendar = "accepted"]
                   ELSE Reply(500)
    /\ UNCHANGED <<clock, tasks, queue, logs, cycles, handlers, rpcDefined, started, sink>>

\* The calendar request to the sink: a failure is logged and nothing more.
CreateTaskCalendar(accepted) ==
    /\ creation.pc = "calendar"
    /\ creation' = [creation EXCEPT !.pc = "plan",
                        !.calendar = IF accepted THEN "accepted" ELSE "failed"]
    /\ UNCHANGED <<clock, tasks, queue, logs, cycles, handlers, rpcDefined, started, sink>>

\* const now = new Date(), the planner, the insert into chaser_queue, which
\* the store performs or answers with an error, and the answer 201.
CreateTaskQueue(stored) ==
    /\ creation.pc = "plan"
    /\ LET chasers == ScheduledChasers(creation.task_id, Assignee,
                                       creation.due, clock) IN
          /\ queue' = IF stored
                      THEN queue \o [i \in DOMAIN chasers |-> QueueRow(chasers[i])]
                      ELSE queue
          /\ creation' = [creation EXCEPT !.pc = "done", !.now = clock,
                              !.chasers = chasers, !.chaserError = ~stored,
                              !.reply = 201]
    /\ UNCHANGED <<clock, tasks, logs, cycles, handlers, rpcDefined, started, sink>>

CreateTask ==
    \/ \E wellFormed \in BOOLEAN : \E due_date \in DueDates \cup {NULL, InvalidDate} :
          \E stored \in BOOLEAN : CreateTaskInsert(wellFormed, due_date, stored)
    \/ \E accepted \in BOOLEAN : CreateTaskCalendar(accepted)
    \/ \E stored \in BOOLEAN : CreateTaskQueue(stored)

\* ------------------------------------------------ changes of the due date
\* The id Boltic gives the calendar event of a task.
EventIds == {1}

\* POST /api/webhooks/boltic/calendar-created:
\* .update({ calendar_event_id }).eq('id', task_id)
CalendarCreated(task_id, calendar_event_id) ==
    /\ task_id \in DOMAIN tasks
    /\ tasks[task_id].calendar_event_id # calendar_event_id
    /\ tasks' = [tasks EXCEPT ![task_id].calendar_event_id = calendar_event_id]
    /\ UNCHANGED <<clock, queue, logs, cycles, handlers, rpcDefined, started, creation, sink>>

\* PATCH /api/tasks/:id with a due date and no status:
\* updateData.due_date = new Date(updates.due_date).toISOString(), which
\* throws for a string that is no date; no other table is written.
PatchDueDate(id, due_date) ==
    /\ id \in DOMAIN tasks
    /\ DueDateTime(due_date) # InvalidDate
    /\ tasks' = [tasks EXCEPT ![id].due_date = DueDateTime(due_date)]
    /\ UNCHANGED <<clock, queue, logs, cycles, handlers, rpcDefined, started, creation, sink>>

\* A timeline update that moves the pending entries of the task along with
\* the due date.
UpdateTimelineReplan(id, event_end) ==
    /\ id \in DOMAIN tasks
    /\ tasks[id].calendar_event_id # NULL
    /\ tasks' = [tasks EXCEPT ![id].due_date = event_end]
    /\ queue' = [e \in DOMAIN queue |->
                    IF queue[e].task_id = id /\ queue[e].status = "pending"
                    THEN [queue[e] EXCEPT !.scheduled_at =
                              @ + (event_end - tasks[id].due_date)]
                    ELSE queue[e]]
    /\ UNCHANGED <<clock, logs, cycles, handlers, rpcDefined, started, creation, sink>>

\* POST /api/tasks/:id/update-timeline: a task without calendar event is
\* refused; otherwise .update({ due_date: event_end }).eq('id', id) and a
\* request to the sink, whose failure is logged.
UpdateTimeline(id, event_end) ==
    /\ id \in DOMAIN tasks
    /\ tasks[id].calendar_event_id # NULL
    /\ tasks' = [tasks EXCEPT ![id].due_date = event_end]
    /\ UNCHANGED <<clock, queue, logs, cycles, handlers, rpcDefined, started, creation, sink>>

\* The requests that change a due date, with the dates they can carry.
RescheduleAmong(dates) ==
    \E id \in {1} :
        \/ \E calendar_event_id \in EventIds : CalendarCreated(id, calendar_event_id)
        \/ \E due_date \in dates \cup {InvalidDate} : PatchDueDate(id, due_date)
        \/ \E event_end \in dates : UpdateTimeline(id, event_end)

Reschedule == RescheduleAmong(DueDates)

\* PATCH /api/tasks/:id with an assignee email:
\* updateData.assignee_email = updates.assignee_email.trim().toLowerCase()
PatchAssignee(id, assignee_email) ==
    /\ id \in DOMAIN tasks
    /\ tasks[id].assignee_email # assignee_email
    /\ tasks' = [tasks EXCEPT ![id].assignee_email = assignee_email]
    /\ UNCHANGED <<clock, queue, logs, cycles, handlers, rpcDefined, started, creation, sink>>

\* POST /api/webhooks/boltic/calendar-conflict:
\* .update({ has_conflict, conflict_with, conflict_end_time }).eq('id', task_id)
CalendarConflict(task_id, has_conflict) ==
    /\ task_id \in DOMAIN tasks
    /\ tasks[task_id].has_conflict # has_conflict
    /\ tasks' = [tasks EXCEPT ![task_id].has_conflict = has_conflict]
    /\ UNCHANGED <<clock, queue, logs, cycles, handlers, rpcDefined, started, creation, sink>>

\* ------------------------------------------------ the dispatch payload
\* hoursRemaining = (taskDueDateTime.getTime() - Date.now()) / (1000 * 60 * 60)
\* and the tier computed from it: <= 1 is 4, <= 4 is 3, <= 12 is 2, else 1.
EscalationTier(due_date, now) ==
    LET remaining == due_date - now IN
        IF remaining <= 1 * MsPerHour THEN 4
        ELSE IF remaining <= 4 * MsPerHour THEN 3
        ELSE IF remaining <= 12 * MsPerHour THEN 2
        ELSE 1

\* const actionType = hasCalendarEvent ? 'notify' : 'create'
ActionType(calendar_event_id) ==
    IF calendar_event_id # NULL THEN "notify" ELSE "create"

\* select *, tasks(...): each row of the result is the queue row and its
\* task, both as they were when the query ran.
JoinedRows(s, q, t) ==
    [i \in DOMAIN s |->
        [id |-> s[i], task_status |-> t[q[s[i]].task_id].status,
         row |-> q[s[i]], task |-> t[q[s[i]].task_id]]]

\* const payload = { ... }: the fields of the request that depend on the
\* entry and its task, built from the row of the result.
Payload(chaser, now) ==
    [queue_id |-> chaser.id,
     task_id |-> chaser.row.task_id,
     action_type |-> ActionType(chaser.task.calendar_event_id),
     calendar_event_id |-> chaser.task.calendar_event_id,
     escalation_tier |-> EscalationTier(chaser.task.due_date, now),
     recipient_email |-> chaser.row.recipient_email]

\* The query of a cycle, with the whole rows of its result.
SelectPayload(c) ==
    /\ \E s \in DueBatches(queue, clock) :
          /\ Len(s) > 0
          /\ Begin(cycles, c)
          /\ cycles' = [cycles EXCEPT ![c] =
                [pc |-> "loop", batch |-> JoinedRows(s, queue, tasks),
                 request |-> NoRequest]]
    /\ UNCHANGED <<clock, tasks, queue, logs, handlers, rpcDefined, creation, sink>>

\* axios.post(bolticWebhookUrl, payload)
PostPayload(c) ==
    /\ cycles[c].pc = "loop"
    /\ Current(cycles[c]).task_status # "completed"
    /\ cycles' = [cycles EXCEPT ![c].pc = "waiting",
                                ![c].request = Payload(Current(cycles[c]), clock)]
    /\ UNCHANGED <<clock, tasks, queue, logs, handlers, rpcDefined, started, creation, sink>>

\* The steps of a cycle that posts such payloads.
PayloadStep(c) ==
    \/ PostPayload(c)
    \/ \E accepted \in BOOLEAN : WebhookResponse(c, accepted)
    \/ MarkTriggered(c)
    \/ RecordAttempt(c)

\* The due dates of the task that is in the store at the start: in 24
\* hours and in 11 hours.
PayloadDues == {24 * MsPerHour, 11 * MsPerHour}

\* The due dates an update moves it to.
LaterDues == {30 * MsPerHour}


\* --------------------------------------------------- the cron endpoint
\* let supabaseClient = null: the client of the scheduler module as the
\* cron function loads it. Only start() assigns it, and the cron function
\* does not call start().
ModuleClient == NULL

\* if (!supabaseClient) return
Initialized(client) == client # NULL

\* A handler that has done its work and is about to answer.
Answering(kind, pc) == [IdleHandler EXCEPT !.kind = kind, !.pc = pc]

\* The cron function: await scheduler.processPendingChasers(supabase).
\* processPendingChasers declares no parameter, so the handle it is handed
\* is dropped and the client of the module decides: without one the call
\* returns at once, with one it runs a cycle, and then the function answers.
CronInvoke(h) ==
    /\ Begin(handlers, h)
    /\ IF Initialized(ModuleClient)
       THEN \E s \in DueBatches(queue, clock) :
               /\ \A c \in Slots : cycles[c].pc = "idle"
               /\ cycles' = [cycles EXCEPT ![FirstFree(cycles)] =
                      IF Len(s) = 0 THEN IdleCycle
                      ELSE [pc |-> "loop", batch |-> Joined(s, queue, tasks),
                            request |-> NoRequest]]
               /\ handlers' = [handlers EXCEPT ![h] = Answering("cron", "cycle")]
       ELSE /\ UNCHANGED cycles
            /\ handlers' = [handlers EXCEPT ![h] = Answering("cron", "success")]
    /\ UNCHANGED <<clock, tasks, queue, logs, rpcDefined, creation, sink>>

\* res.status(200).json({ success: true, ... }), once the call has returned
CronAnswer(h) ==
    /\ handlers[h].kind = "cron"
    /\ \/ handlers[h].pc = "success"
       \/ handlers[h].pc = "cycle" /\ \A c \in Slots : cycles[c].pc = "idle"
    /\ handlers' = [handlers EXCEPT ![h] = IdleHandler]
    /\ UNCHANGED <<clock, tasks, queue, logs, cycles, rpcDefined, started, creation, sink>>

Cron ==
    \E h \in Slots :
        \/ CronInvoke(h)
        \/ CronAnswer(h)

\* ------------------------------------- callbacks with a failing log insert
\* A handler that undoes its update of the entry when the log insert fails.
ChaserFailedLogRollback(h, stored) ==
    /\ handlers[h].kind = "chaser-failed"
    /\ handlers[h].pc = "log"
    /\ IF stored
       THEN /\ logs' = Append(logs, FailedLogRow(handlers[h].task_id, handlers[h].qid, clock))
            /\ UNCHANGED queue
       ELSE /\ UNCHANGED logs
            /\ queue' = [queue EXCEPT ![handlers[h].qid].status = handlers[h].was]
    /\ handlers' = [handlers EXCEPT ![h] = IdleHandler]
    /\ UNCHANGED <<clock, tasks, cycles, rpcDefined, started, creation, sink>>

\* The insert into chaser_logs, which the store performs or answers with an
\* error: if (logError) is logged, and the handler goes on to its answer.
ChaserFailedLogStore(h, stored) ==
    /\ handlers[h].kind = "chaser-failed"
    /\ handlers[h].pc = "log"
    /\ logs' = IF stored
               THEN Append(logs, FailedLogRow(handlers[h].task_id, handlers[h].qid, clock))
               ELSE logs
    /\ handlers' = [handlers EXCEPT ![h] = IdleHandler]
    /\ UNCHANGED <<clock, tasks, queue, cycles, rpcDefined, started, creation, sink>>

\* The same of the success callback, which goes on to the task counters.
ChaserSentLogStore(h, stored) ==
    /\ handlers[h].kind = "chaser-sent"
    /\ handlers[h].pc = "log"
    /\ logs' = IF stored
               THEN Append(logs, SentLogRow(handlers[h].task_id, handlers[h].qid, handlers[h].ts))
               ELSE logs
    /\ handlers' = [handlers EXCEPT ![h].pc = "task"]
    /\ UNCHANGED <<clock, tasks, queue, cycles, rpcDefined, started, creation, sink>>

CallbacksStore ==
    \E h \in Slots :
        \/ \E queue_id \in Entries \cup {UnknownId} :
             \E sent_at \in {NULL} : ChaserSentQueue(h, queue_id, sent_at)
        \/ ChaserSentNotFound(h)
        \/ \E stored \in BOOLEAN : ChaserSentLogStore(h, stored)
        \/ ChaserSentTask(h)
        \/ ChaserSentRpc(h)
        \/ \E queue_id \in Entries \cup {UnknownId} : ChaserFailedQueue(h, queue_id)
        \/ ChaserFailedNotFound(h)
        \/ \E stored \in BOOLEAN : ChaserFailedLogStore(h, stored)

\* ------------------------------- a sink that answers each request once
\* A tick of cron.schedule, of which there is no last one: the query, and
\* the cycle if it returns rows.
SelectDue(c) ==
    /\ CanBegin(cycles, c)
    /\ \E s \in DueBatches(queue, clock) :
          /\ Len(s) > 0
          /\ cycles' = [cycles EXCEPT ![c] =
                [pc |-> "loop", batch |-> Joined(s, queue, tasks),
                 request |-> NoRequest]]
    /\ UNCHANGED <<clock, tasks, queue, logs, handlers, rpcDefined, started, creation, sink>>

\* The sink answers 2xx and from then on owes the outcome of the request.
WebhookAccepted(c) ==
    /\ cycles[c].pc = "waiting"
    /\ cycles' = [cycles EXCEPT ![c].pc = "accepted", ![c].request = NoRequest]
    /\ sink' = [sink EXCEPT ![cycles[c].request.queue_id] = @ + 1]
    /\ UNCHANGED <<clock, tasks, queue, logs, handlers, rpcDefined, started, creation>>

\* The sink reports a delivery: POST .../chaser-sent without sent_at.
OutcomeSent(h, queue_id) ==
    /\ sink[queue_id] > 0
    /\ sink' = [sink EXCEPT ![queue_id] = @ - 1]
    /\ CanBegin(handlers, h)
    /\ queue' = [queue EXCEPT ![queue_id] = SentUpdate(@, SentTimestamp(NULL, clock))]
    /\ handlers' = [handlers EXCEPT ![h] =
            [kind |-> "chaser-sent", pc |-> "log", qid |-> queue_id,
             sent_at |-> NULL,
             task_id |-> queue[queue_id].task_id,
             was |-> queue[queue_id].status,
             ts |-> SentTimestamp(NULL, clock)]]
    /\ UNCHANGED <<clock, tasks, logs, cycles, rpcDefined, started, creation>>

\* The sink reports a failure: POST .../chaser-failed.
OutcomeFailed(h, queue_id) ==
    /\ sink[queue_id] > 0
    /\ sink' = [sink EXCEPT ![queue_id] = @ - 1]
    /\ CanBegin(handlers, h)
    /\ queue' = [queue EXCEPT ![queue_id] = FailedUpdate(@, clock)]
    /\ handlers' = [handlers EXCEPT ![h] =
            [kind |-> "chaser-failed", pc |-> "log", qid |-> queue_id,
             sent_at |-> NULL,
             task_id |-> queue[queue_id].task_id,
             was |-> queue[queue_id].status, ts |-> NULL]]
    /\ UNCHANGED <<clock, tasks, logs, cycles, rpcDefined, started, creation>>

\* The steps of a cycle that follow its query.
CycleProgress(c) ==
    \/ PostWebhook(c)
    \/ WebhookAccepted(c)
    \/ WebhookResponse(c, FALSE)
    \/ MarkTriggered(c)
    \/ RecordAttempt(c)

\* The callback the sink owes arrives.
Outcome ==
    \E h \in Slots : \E queue_id \in DOMAIN queue :
        \/ OutcomeSent(h, queue_id)
        \/ OutcomeFailed(h, queue_id)

\* The steps of a callback that follow its update of the entry.
HandlerProgress(h) ==
    \/ ChaserSentLog(h)
    \/ ChaserSentTask(h)
    \/ ChaserSentRpc(h)
    \/ ChaserFailedLog(h)

\* The rows of a queue that holds the two entries of the first task, both
\* due from the start.
Pair == 1..2

\* --------------------------------------------- more due entries than a batch
\* The rows of a queue that holds one entry more than a batch takes, each
\* scheduled later than the one before, and all of them due.
Backlog == 1..(BatchLimit + 1)

\* The scheduled instants of a backlog whose last two rows are scheduled at
\* the same instant.
ScheduledTie(e) == IF e > BatchLimit THEN BatchLimit - 1 ELSE e - 1

\* The steps of a cycle while the sink is down: every request fails.
CycleStepRefused(c) ==
    \/ PostWebhook(c)
    \/ WebhookResponse(c, FALSE)
    \/ RecordAttempt(c)

\* The steps of a cycle whose requests the sink may refuse or accept.
CycleStepAny(c) ==
    \/ PostWebhook(c)
    \/ \E accepted \in BOOLEAN : WebhookResponse(c, accepted)
    \/ MarkTriggered(c)
    \/ RecordAttempt(c)

Next ==
    \/ Tick
    \/ processPendingChasers
    \/ ChaserSent
    \/ ChaserFailed
    \/ Patch

Spec == Init /\ [][Next]_vars

\* Task creation and the changes of the due date on their own: the tables
\* are empty, the clock counts milliseconds, and one creation request is
\* served.
InitCreate ==
    /\ clock = 0
    /\ tasks = <<>>
    /\ queue = <<>>
    /\ logs = <<>>
    /\ cycles = [c \in Slots |-> IdleCycle]
    /\ handlers = [h \in Slots |-> IdleHandler]
    /\ rpcDefined \in BOOLEAN
    /\ started = 0
    /\ creation = NoCreation
    /\ sink = [e \in DOMAIN queue |-> 0]

NextCreate ==
    \/ Tick
    \/ CreateTask
    \/ Reschedule

SpecCreate == InitCreate /\ [][NextCreate]_vars

\* The dispatcher of the server together with the cron function.
NextCron ==
    \/ Tick
    \/ \E c \in Slots : SelectBatch(c)
    \/ \E c \in Slots : CycleStepAny(c)
    \/ Cron

SpecCron == Init /\ [][NextCron]_vars

\* The dispatcher and the callbacks, with a store that may refuse the
\* insert into chaser_logs.
NextStore ==
    \/ Tick
    \/ \E c \in Slots : SelectBatch(c)
    \/ \E c \in Slots : CycleStepAny(c)
    \/ CallbacksStore

SpecStore == Init /\ [][NextStore]_vars

\* The dispatcher and a sink that reports the outcome of every request it
\* accepted, once. node-cron fires every minute, the event loop runs every
\* continuation that is ready, and the sink is assumed to deliver: a cycle
\* is begun whenever entries stay due, every cycle and every handler takes
\* its next step, and a callback that is owed arrives.
InitDelivery ==
    /\ clock = 0
    /\ tasks = [t \in Tasks |->
                 [status |-> "pending", total_chasers_sent |-> 0,
                  last_chaser_sent_at |-> NULL]]
    /\ queue = [e \in Pair |->
                 [task_id |-> TaskOf(e), scheduled_at |-> ScheduledOf(e),
                  status |-> "pending", sent_at |-> NULL, last_attempt_at |-> NULL]]
    /\ logs = <<>>
    /\ cycles = [c \in Slots |-> IdleCycle]
    /\ handlers = [h \in Slots |-> IdleHandler]
    /\ rpcDefined \in BOOLEAN
    /\ started = 0
    /\ creation = NoCreation
    /\ sink = [e \in DOMAIN queue |-> 0]

NextDelivery ==
    \/ \E c \in Slots : SelectDue(c)
    \/ \E c \in Slots : CycleProgress(c)
    \/ Outcome
    \/ \E h \in Slots : HandlerProgress(h)

FairDelivery ==
    /\ WF_vars(\E c \in Slots : SelectDue(c))
    /\ \A c \in Slots : WF_vars(CycleProgress(c))
    /\ \A h \in Slots : WF_vars(HandlerProgress(h))
    /\ SF_vars(Outcome)

SpecDelivery == InitDelivery /\ [][NextDelivery]_vars /\ FairDelivery

\* The dispatcher and the updates of a task, over the rows of one task that
\* was created 25 hours before its due date: its four entries are in the
\* queue, and those whose time has passed are late.
InitPayload ==
    /\ clock = 0
    /\ \E due \in PayloadDues :
          /\ tasks = <<TaskRow(Assignee, due)>>
          /\ queue = LET chasers == ScheduledChasers(1, Assignee, due,
                                                     due - 25 * MsPerHour)
                     IN [i \in DOMAIN chasers |-> QueueRow(chasers[i])]
    /\ logs = <<>>
    /\ cycles = [c \in Slots |-> IdleCycle]
    /\ handlers = [h \in Slots |-> IdleHandler]
    /\ rpcDefined \in BOOLEAN
    /\ started = 0
    /\ creation = NoCreation
    /\ sink = [e \in DOMAIN queue |-> 0]

NextPayload ==
    \/ Tick
    \/ \E c \in Slots : SelectPayload(c)
    \/ \E c \in Slots : PayloadStep(c)
    \/ RescheduleAmong(LaterDues)
    \/ PatchAssignee(1, NewAssignee)

SpecPayload == InitPayload /\ [][NextPayload]_vars

\* Everything that writes the row of a task, over the same store: dispatch
\* cycles, both outcome callbacks, task update and completion, the changes
\* of the due date, and the calendar callbacks.
NextCounter ==
    \/ \E c \in Slots : SelectPayload(c)
    \/ \E c \in Slots : SkipCompleted(c)
    \/ \E c \in Slots : PayloadStep(c)
    \/ \E h \in Slots :
          \/ \E queue_id \in {1, UnknownId} : ChaserSentQueue(h, queue_id, NULL)
          \/ ChaserSentNotFound(h)
          \/ ChaserSentLog(h)
          \/ ChaserSentTask(h)
          \/ ChaserSentRpc(h)
    \/ \E h \in Slots :
          \/ \E queue_id \in {1, UnknownId} : ChaserFailedQueue(h, queue_id)
          \/ ChaserFailedNotFound(h)
          \/ ChaserFailedLog(h)
    \/ \E h \in Slots :
          \/ \E status \in {"pending", "completed"} : PatchTask(h, 1, status)
          \/ PatchCancel(h)
    \/ RescheduleAmong(LaterDues)
    \/ \E has_conflict \in BOOLEAN : CalendarConflict(1, has_conflict)

SpecCounter == InitPayload /\ [][NextCounter]_vars

\* The dispatcher alone, over a queue that holds more due entries than a
\* batch takes, while the sink is down.
InitBacklog ==
    /\ clock = BatchLimit
    /\ tasks = [t \in Tasks |->
                 [status |-> "pending", total_chasers_sent |-> 0,
                  last_chaser_sent_at |-> NULL]]
    /\ queue = [e \in Backlog |->
                 [task_id |-> 1, scheduled_at |-> e - 1,
                  status |-> "pending", sent_at |-> NULL, last_attempt_at |-> NULL]]
    /\ logs = <<>>
    /\ cycles = [c \in Slots |-> IdleCycle]
    /\ handlers = [h \in Slots |-> IdleHandler]
    /\ rpcDefined \in BOOLEAN
    /\ started = 0
    /\ creation = NoCreation
    /\ sink = [e \in DOMAIN queue |-> 0]

NextBacklog ==
    \/ \E c \in Slots : SelectDue(c)
    \/ \E c \in Slots : CycleStepRefused(c)

\* node-cron fires every minute and the event loop runs every continuation
\* that is ready: a cycle is begun whenever entries stay due, and every
\* cycle takes its next step.
FairBacklog ==
    /\ WF_vars(\E c \in Slots : SelectDue(c))
    /\ \A c \in Slots : WF_vars(CycleStepRefused(c))

SpecBacklog == InitBacklog /\ [][NextBacklog]_vars /\ FairBacklog

\* The bulk cancel over a store that may refuse it: cancelError is logged
\* and the handler goes on.
PatchCancelStore(h, stored) ==
    /\ handlers[h].kind = "patch"
    /\ handlers[h].pc = "cancel"
    /\ queue' = IF stored THEN CancelPending(queue, handlers[h].task_id) ELSE queue
    /\ handlers' = [handlers EXCEPT ![h] = IdleHandler]
    /\ UNCHANGED <<clock, tasks, logs, cycles, rpcDefined, started, creation, sink>>

\* A backlog of a batch and two more rows; the first row and the last are
\* those of the second task.
Overfull == 1..(BatchLimit + 2)
CompletedTaskOf(e) == IF e = 1 \/ e = BatchLimit + 2 THEN 2 ELSE 1

\* That backlog at the moment PATCH /api/tasks/2 {status: 'completed'} has
\* written the task and is about to cancel its pending entries; every row
\* is due.
InitCompleted ==
    /\ clock = BatchLimit + 1
    /\ tasks = [t \in Tasks |->
                 [status |-> IF t = 2 THEN "completed" ELSE "pending",
                  total_chasers_sent |-> 0, last_chaser_sent_at |-> NULL]]
    /\ queue = [e \in Overfull |->
                 [task_id |-> CompletedTaskOf(e), scheduled_at |-> e - 1,
                  status |-> "pending", sent_at |-> NULL, last_attempt_at |-> NULL]]
    /\ logs = <<>>
    /\ cycles = [c \in Slots |-> IdleCycle]
    /\ handlers = [h \in Slots |->
                    IF h = 1
                    THEN [kind |-> "patch", pc |-> "cancel", qid |-> UnknownId,
                          sent_at |-> NULL, task_id |-> 2,
                          was |-> "pending", ts |-> NULL]
                    ELSE IdleHandler]
    /\ rpcDefined = FALSE
    /\ started = 1
    /\ creation = NoCreation
    /\ sink = [e \in DOMAIN queue |-> 0]

NextCompleted ==
    \/ \E c \in Slots : SelectDue(c)
    \/ \E c \in Slots : SkipCompleted(c)
    \/ \E c \in Slots : CycleStepRefused(c)
    \/ \E h \in Slots : \E stored \in BOOLEAN : PatchCancelStore(h, stored)

\* The fairness of the backlog, and the handler of PATCH takes its step.
FairCompleted ==
    /\ FairBacklog
    /\ \A c \in Slots : WF_vars(SkipCompleted(c))
    /\ WF_vars(\E h \in Slots : \E stored \in BOOLEAN : PatchCancelStore(h, stored))

SpecCompleted == InitCompleted /\ [][NextCompleted]_vars /\ FairCompleted

\* The dispatcher alone, over a backlog whose last two rows are scheduled at
\* the same instant; the sink accepts or refuses each request.
InitTies ==
    /\ clock = BatchLimit
    /\ tasks = [t \in Tasks |->
                 [status |-> "pending", total_chasers_sent |-> 0,
                  last_chaser_sent_at |-> NULL]]
    /\ queue = [e \in Backlog |->
                 [task_id |-> 1, scheduled_at |-> ScheduledTie(e),
                  status |-> "pending", sent_at |-> NULL, last_attempt_at |-> NULL]]
    /\ logs = <<>>
    /\ cycles = [c \in Slots |-> IdleCycle]
    /\ handlers = [h \in Slots |-> IdleHandler]
    /\ rpcDefined \in BOOLEAN
    /\ started = 0
    /\ creation = NoCreation
    /\ sink = [e \in DOMAIN queue |-> 0]

NextBatch ==
    \/ \E c \in Slots : SelectDue(c)
    \/ \E c \in Slots : CycleStepAny(c)

SpecBatch == InitTies /\ [][NextBatch]_vars

\* ======================================================= the properties
\* The step in which cycle c does what follows its state pc.
CycleStep(c, pc) == cycles[c].pc = pc /\ cycles'[c] # cycles[c]

\* The step in which handler h of the given kind does what follows pc.
HandlerStep(h, kind, pc) ==
    /\ handlers[h].kind = kind
    /\ handlers[h].pc = pc
    /\ handlers'[h] # handlers[h]

\* The step in which slot h starts a handler of the given kind.
HandlerStart(h, kind) == handlers[h].pc = "idle" /\ handlers'[h].kind = kind

\* The step in which slot h starts a callback of the given kind that finds
\* the entry its body names.
CallbackStart(h, kind) == HandlerStart(h, kind) /\ handlers'[h].qid \in Entries

\* C1: no request is in flight for an entry whose task is completed at the
\* time the request is sent, also when the task was completed after the
\* cycle selected its batch.
C1_NoRequestForCompletedTask ==
    \A c \in Slots :
        cycles[c].pc = "waiting" => cycles[c].request.task_status # "completed"

\* C2: the dispatcher never sends a request for an entry whose status in
\* the store is triggered at the time of sending, under any interleaving of
\* cycles.
C2_NoRequestForTriggeredEntry ==
    \A c \in Slots :
        cycles[c].pc = "waiting" => cycles[c].request.entry_status # "triggered"

\* C3: sent, failed and cancelled are terminal: no step of any operation
\* changes the status of an entry that has one of them.
C3_TerminalStatusesStay ==
    [][\A e \in Entries :
          queue[e].status \in {"sent", "failed", "cancelled"}
              => queue'[e].status = queue[e].status]_vars

\* C4: when the sink accepts a request the dispatcher makes the entry
\* triggered with last_attempt_at the current time, writes no delivery log
\* and changes no task counter; acceptance never makes the entry sent.
C4_AcceptanceMarksTriggered ==
    [][\A c \in Slots :
          /\ (cycles[c].pc = "waiting" /\ cycles'[c].pc = "accepted")
                => UNCHANGED <<queue, logs, tasks>>
          /\ CycleStep(c, "accepted") =>
                LET id == Current(cycles[c]).id IN
                    /\ queue'[id].status = "triggered"
                    /\ queue'[id].status # "sent"
                    /\ queue'[id].last_attempt_at = clock
                    /\ queue'[id].sent_at = queue[id].sent_at
                    /\ \A e \in Entries \ {id} : queue'[e] = queue[e]
                    /\ logs' = logs
                    /\ tasks' = tasks]_vars

\* C4, its case: an entry is triggered, stamped with an attempt, and
\* there is no delivery log.
C4_Witness ==
    \E e \in Entries :
        /\ queue[e].status = "triggered"
        /\ queue[e].last_attempt_at # NULL
        /\ queue[e].sent_at = NULL
        /\ logs = <<>>
        /\ \A t \in Tasks : tasks[t].total_chasers_sent = 0

\* C5: when the request fails the dispatcher leaves the entry's status as
\* it is, so that a pending entry remains pending, sets last_attempt_at to
\* the current time and leaves total_chasers_sent of every task unchanged.
C5_FailureKeepsPending ==
    [][\A c \in Slots :
          /\ (cycles[c].pc = "waiting" /\ cycles'[c].pc = "failed")
                => UNCHANGED <<queue, logs, tasks>>
          /\ CycleStep(c, "failed") =>
                LET id == Current(cycles[c]).id IN
                    /\ queue'[id].status = queue[id].status
                    /\ queue'[id].last_attempt_at = clock
                    /\ \A e \in Entries \ {id} : queue'[e] = queue[e]
                    /\ \A t \in Tasks :
                          tasks'[t].total_chasers_sent = tasks[t].total_chasers_sent]_vars

\* C5, its case: a failed request has left an entry pending with an
\* attempt recorded, and no counter has moved.
C5_Witness ==
    \E e \in Entries :
        /\ queue[e].status = "pending"
        /\ queue[e].last_attempt_at # NULL
        /\ \A c \in Slots : cycles[c].pc = "idle"
        /\ \A t \in Tasks : tasks[t].total_chasers_sent = 0

\* The step in which slot c runs the due-entries query and gets rows.
Selects(c) == cycles[c].pc = "idle" /\ cycles'[c].pc # "idle"

\* Every row of a batch is, in the store, pending and due at the time of
\* the query.
OnlyDueSelected(b) ==
    \A i \in DOMAIN b :
        /\ queue[b[i].id].status = "pending"
        /\ queue[b[i].id].scheduled_at <= clock

\* C6, as stated: the entries a cycle selects are strictly ordered by
\* scheduled_at ascending, and none of them is non-pending or not yet due.
C6_StrictlyAscending ==
    [][\A c \in Slots : Selects(c) =>
          LET b == cycles'[c].batch IN
              /\ \A i \in DOMAIN b : \A j \in DOMAIN b :
                    i < j => queue[b[i].id].scheduled_at < queue[b[j].id].scheduled_at
              /\ OnlyDueSelected(b)]_vars

\* C6, amended: the entries a cycle selects are in non-decreasing order of
\* scheduled_at (entries with the same scheduled_at come in either order),
\* and none of them is non-pending or not yet due.
C6_NonDecreasing ==
    [][\A c \in Slots : Selects(c) =>
          LET b == cycles'[c].batch IN
              /\ \A i \in DOMAIN b : \A j \in DOMAIN b :
                    i < j => queue[b[i].id].scheduled_at <= queue[b[j].id].scheduled_at
              /\ OnlyDueSelected(b)]_vars

\* C6, its case: a batch of three, the first two with the same
\* scheduled_at and the third later.
C6_Witness ==
    \E c \in Slots :
        LET b == cycles[c].batch IN
            /\ cycles[c].pc = "loop"
            /\ Len(b) = 3
            /\ queue[b[1].id].scheduled_at = queue[b[2].id].scheduled_at
            /\ queue[b[2].id].scheduled_at < queue[b[3].id].scheduled_at

\* C7: marking a task completed sets its status to completed and makes the
\* pending entries of that task cancelled; entries in any other status and
\* entries of other tasks stay as they are.
C7_CompletionCancelsPending ==
    [][\A h \in Slots :
          /\ HandlerStart(h, "patch") =>
                /\ tasks'[handlers'[h].task_id].status = "completed"
                /\ \A t \in Tasks \ {handlers'[h].task_id} : tasks'[t] = tasks[t]
                /\ queue' = queue
          /\ HandlerStep(h, "patch", "cancel") =>
                /\ \A e \in Entries :
                      IF queue[e].task_id = handlers[h].task_id
                         /\ queue[e].status = "pending"
                      THEN /\ queue'[e].status = "cancelled"
                           /\ queue'[e].sent_at = queue[e].sent_at
                           /\ queue'[e].last_attempt_at = queue[e].last_attempt_at
                      ELSE queue'[e] = queue[e]
                /\ tasks' = tasks
                /\ logs' = logs]_vars

\* C7, its case: a task is completed, one of its entries was cancelled by
\* the update while another, triggered, was left alone, and so was the
\* pending entry of another task.
C7_Witness ==
    \E t \in Tasks : \E e1 \in Entries : \E e2 \in Entries : \E e3 \in Entries :
        /\ tasks[t].status = "completed"
        /\ \A h \in Slots : handlers[h].pc = "idle"
        /\ queue[e1].task_id = t /\ queue[e1].status = "cancelled"
        /\ queue[e2].task_id = t /\ queue[e2].status = "triggered"
        /\ queue[e3].task_id # t /\ queue[e3].status = "pending"

\* C8: when a task was completed while an entry of it was triggered, a
\* success callback for that entry is still applied: the entry becomes
\* sent, a sent delivery log is appended, and total_chasers_sent of the
\* completed task is incremented.
C8_CallbackAfterCompletion ==
    [][\A h \in Slots :
          /\ (CallbackStart(h, "chaser-sent")
                /\ queue[handlers'[h].qid].status = "triggered"
                /\ tasks[handlers'[h].task_id].status = "completed")
                => queue'[handlers'[h].qid].status = "sent"
          /\ (handlers[h].was = "triggered"
                /\ tasks[handlers[h].task_id].status = "completed")
                => /\ HandlerStep(h, "chaser-sent", "log") =>
                        /\ Len(logs') = Len(logs) + 1
                        /\ logs'[Len(logs')].status = "sent"
                        /\ logs'[Len(logs')].queue_id = handlers[h].qid
                   /\ HandlerStep(h, "chaser-sent", "rpc") =>
                        tasks'[handlers[h].task_id].total_chasers_sent
                            = tasks[handlers[h].task_id].total_chasers_sent + 1]_vars

\* C9: a success callback makes the entry sent with sent_at the sent_at of
\* the body, or the current time when the body has none, appends exactly one
\* sent delivery log for the entry and its task, and sets the task's
\* last_chaser_sent_at to the same instant.
C9_SuccessCallbackRecords ==
    [][\A h \in Slots :
          /\ CallbackStart(h, "chaser-sent") =>
                LET id == handlers'[h].qid
                    at == IF handlers'[h].sent_at # NULL
                          THEN handlers'[h].sent_at ELSE clock
                IN /\ queue'[id].status = "sent"
                   /\ queue'[id].sent_at = at
                   /\ handlers'[h].ts = at
                   /\ handlers'[h].task_id = queue[id].task_id
                   /\ logs' = logs
          /\ HandlerStep(h, "chaser-sent", "log") =>
                /\ logs' = Append(logs,
                      [task_id |-> handlers[h].task_id, queue_id |-> handlers[h].qid,
                       sent_at |-> handlers[h].ts, status |-> "sent"])
                /\ handlers'[h].ts = handlers[h].ts
          /\ HandlerStep(h, "chaser-sent", "task") =>
                /\ tasks'[handlers[h].task_id].last_chaser_sent_at = handlers[h].ts
                /\ logs' = logs
          /\ HandlerStep(h, "chaser-sent", "rpc") => logs' = logs]_vars

\* C9, its case: a callback whose body carried a sent_at other than the
\* current time has run to its end, and the entry, its one log and its task
\* carry that instant.
C9_Witness ==
    \E e \in Entries :
        /\ \A h \in Slots : handlers[h].pc = "idle"
        /\ queue[e].status = "sent"
        /\ queue[e].sent_at # clock
        /\ Len(logs) = 1
        /\ logs[1].queue_id = e
        /\ logs[1].task_id = queue[e].task_id
        /\ logs[1].status = "sent"
        /\ logs[1].sent_at = queue[e].sent_at
        /\ tasks[queue[e].task_id].last_chaser_sent_at = queue[e].sent_at

\* C10: a success callback increments total_chasers_sent of the task that
\* owns the entry by exactly 1 and leaves the counter of every other task
\* unchanged.
C10_CounterIncrementedByOne ==
    [][\A h \in Slots :
          (handlers[h].kind = "chaser-sent" /\ handlers'[h] # handlers[h]) =>
              \A t \in Tasks :
                  tasks'[t].total_chasers_sent =
                      IF t = handlers[h].task_id /\ handlers[h].pc = "rpc"
                      THEN tasks[t].total_chasers_sent + 1
                      ELSE tasks[t].total_chasers_sent]_vars

\* C11: when success callbacks for different entries of the same task are
\* processed concurrently, no increment of the task's total_chasers_sent is
\* lost: each of them raises the count by one, so that k of them leave it k
\* higher.
C11_NoIncrementLost ==
    [][\A h \in Slots : \A g \in Slots \ {h} :
          (/\ HandlerStep(h, "chaser-sent", "rpc")
           /\ handlers[g].kind = "chaser-sent"
           /\ handlers[g].pc \in {"log", "task", "rpc"}
           /\ handlers[g].task_id = handlers[h].task_id
           /\ handlers[g].qid # handlers[h].qid)
              => tasks'[handlers[h].task_id].total_chasers_sent
                    = tasks[handlers[h].task_id].total_chasers_sent + 1]_vars

\* C12: a failure callback for an existing entry in triggered makes it
\* failed, appends exactly one failed delivery log for the entry and its
\* task, and leaves total_chasers_sent and last_chaser_sent_at of the task
\* unchanged.
C12_FailureCallbackRecords ==
    [][\A h \in Slots :
          /\ (CallbackStart(h, "chaser-failed")
                /\ queue[handlers'[h].qid].status = "triggered") =>
                LET id == handlers'[h].qid IN
                    /\ queue'[id].status = "failed"
                    /\ \A e \in Entries \ {id} : queue'[e] = queue[e]
                    /\ handlers'[h].task_id = queue[id].task_id
                    /\ logs' = logs
                    /\ tasks' = tasks
          /\ (HandlerStep(h, "chaser-failed", "log")
                /\ handlers[h].was = "triggered") =>
                /\ Len(logs') = Len(logs) + 1
                /\ SubSeq(logs', 1, Len(logs)) = logs
                /\ logs'[Len(logs')].status = "failed"
                /\ logs'[Len(logs')].queue_id = handlers[h].qid
                /\ logs'[Len(logs')].task_id = queue[handlers[h].qid].task_id
                /\ handlers'[h].pc = "idle"
                /\ tasks' = tasks]_vars

\* C12, its case: a failure callback found its entry triggered and has
\* made it failed.
C12_Witness ==
    \E h \in Slots :
        /\ handlers[h].kind = "chaser-failed"
        /\ handlers[h].pc = "log"
        /\ handlers[h].was = "triggered"
        /\ queue[handlers[h].qid].status = "failed"
        /\ queue[handlers[h].qid].last_attempt_at # NULL

\* C13: delivering the same callback twice for one queue id has the effect
\* of delivering it once: the delivery log never holds two rows of the same
\* status for one queue id.
C13_NoSecondLog ==
    \A i \in DOMAIN logs : \A j \in DOMAIN logs :
        (i # j /\ logs[i].queue_id = logs[j].queue_id)
            => logs[i].status # logs[j].status

\* C14: a success or failure callback that names a queue id no entry has is
\* answered NotFound and changes nothing: no delivery log is added, no task
\* and no entry changes; only callbacks that found their entry go on to
\* write.
C14_UnknownIdChangesNothing ==
    [][\A h \in Slots :
          /\ (handlers'[h] # handlers[h]
                /\ (handlers'[h].pc = "notfound" \/ handlers[h].pc = "notfound"))
                => UNCHANGED <<queue, logs, tasks>>
          /\ (handlers'[h].kind \in {"chaser-sent", "chaser-failed"}
                /\ handlers'[h].qid \notin Entries)
                => handlers'[h].pc = "notfound"
          /\ (handlers[h].pc = "notfound" /\ handlers'[h] # handlers[h])
                => handlers'[h].pc = "idle"]_vars

\* C14, its case: a callback has found no entry for its queue id, at a
\* time the store holds a delivery log.
C14_Witness ==
    \E h \in Slots :
        /\ handlers[h].pc = "notfound"
        /\ handlers[h].qid \notin Entries
        /\ Len(logs) > 0

\* C15: a task's status only changes from pending to completed: no step of
\* any operation takes a completed task to another status.
C15_CompletedStays ==
    [][\A t \in Tasks :
          tasks[t].status = "completed" => tasks'[t].status = "completed"]_vars

\* C16: the delivery log is append-only: a step either leaves it as it is
\* or is the log insert of a success or failure callback, which adds one
\* row at the end and leaves the rows before it as they were.
C16_LogsAppendOnly ==
    [][\/ logs' = logs
       \/ /\ Len(logs') = Len(logs) + 1
          /\ SubSeq(logs', 1, Len(logs)) = logs
          /\ \E h \in Slots :
                \/ HandlerStep(h, "chaser-sent", "log")
                \/ HandlerStep(h, "chaser-failed", "log")]_vars

\* C16, its case: the log holds a sent row and then a failed row, and a
\* task has been completed since.
C16_Witness ==
    /\ Len(logs) = 2
    /\ logs[1].status = "sent"
    /\ logs[2].status = "failed"
    /\ \A h \in Slots : handlers[h].pc = "idle"
    /\ tasks[logs[1].task_id].status = "completed"

\* The planner has run: the request was answered 201, with the reference
\* time and the entries it planned.
Planned == creation.pc = "done" /\ creation.reply = 201

\* The offset of tier k before the due date, in milliseconds: 24, 12, 4
\* and 1 hours.
OffsetOf(k) == <<24, 12, 4, 1>>[k] * 3600000

\* The tiers whose instant, due less offset, is strictly after now.
FutureTiers(due, now) == {k \in 1..4 : due - OffsetOf(k) > now}

\* C17: for a due instant strictly more than 1 hour after the reference
\* time the planner emits at least one entry, and every emitted entry is
\* scheduled strictly after the reference time and strictly before the due
\* instant.
C17_PlannedWithinWindow ==
    (Planned /\ creation.due - creation.now > 3600000) =>
        /\ Len(creation.chasers) >= 1
        /\ \A i \in DOMAIN creation.chasers :
              /\ creation.chasers[i].scheduled_at > creation.now
              /\ creation.chasers[i].scheduled_at < creation.due

\* C17, its case: a task due one millisecond more than an hour after the
\* reference time has got its one entry, one millisecond after the
\* reference time.
C17_Witness ==
    /\ Planned
    /\ creation.due - creation.now = 3600000 + 1
    /\ Len(creation.chasers) = 1
    /\ creation.chasers[1].scheduled_at = creation.now + 1

C19_FallbackOnlyWhenDueSoon ==
    Planned =>
        IF creation.due - creation.now <= 3600000
        THEN creation.chasers =
                << [task_id |-> creation.task_id,
                    scheduled_at |-> creation.now + 60000,
                    recipient_email |-> Assignee,
                    status |-> "pending", escalation_tier |-> 4] >>
        ELSE /\ Len(creation.chasers)
                    = Cardinality(FutureTiers(creation.due, creation.now))
             /\ \A i \in DOMAIN creation.chasers :
                   creation.chasers[i].scheduled_at
                       = creation.due - OffsetOf(creation.chasers[i].escalation_tier)

\* C19, its case: a task due in 20 minutes has got the one fallback entry,
\* and it is in the store.
C19_Witness ==
    /\ Planned
    /\ creation.due - creation.now = 20 * 60000
    /\ Len(creation.chasers) = 1
    /\ creation.chasers[1].escalation_tier = 4
    /\ creation.chasers[1].scheduled_at = creation.now + 60000
    /\ Len(queue) = 1

\* C20: after a task creation that reports success at least one entry
\* exists in the store for the task.
C20_CreatedTaskHasEntry ==
    (creation.pc = "done" /\ creation.reply = 201) =>
        \E e \in DOMAIN queue : queue[e].task_id = creation.task_id

\* Another update of task id that has set it completed and has not yet
\* cancelled its entries.
OtherCompletion(h, id) ==
    \E g \in Slots \ {h} :
        handlers[g].kind = "patch" /\ handlers[g].pc = "cancel" /\ handlers[g].task_id = id

C22_DueDateChangeKeepsQueue ==
    [][(\E t \in DOMAIN tasks :
           t \in DOMAIN tasks' /\ tasks'[t].due_date # tasks[t].due_date)
          => queue' = queue]_vars

\* C22, its case: the due date of the created task has been changed after
\* its entries were inserted, and the queue holds the entries as planned
\* from the due date of the creation request.
C22_Witness ==
    /\ creation.pc = "done"
    /\ creation.reply = 201
    /\ Len(queue) >= 1
    /\ tasks[creation.task_id].due_date # creation.due
    /\ tasks[creation.task_id].calendar_event_id # NULL
    /\ queue = [i \in DOMAIN creation.chasers |-> QueueRow(creation.chasers[i])]

\* C26: when the calendar request of a task creation fails, the handler
\* goes on: the task stays stored and pending, the entries are planned and,
\* unless the store refuses them, inserted, and the answer is 201.
C26_CalendarFailureTolerated ==
    [][/\ (creation.pc = "calendar" /\ creation' # creation) =>
            /\ creation'.pc = "plan"
            /\ tasks' = tasks
            /\ tasks[creation.task_id].status = "pending"
       /\ (creation.pc = "plan" /\ creation.calendar = "failed" /\ creation' # creation) =>
            /\ creation'.pc = "done"
            /\ creation'.reply = 201
            /\ Len(creation'.chasers) >= 1
            /\ tasks'[creation.task_id].status = "pending"
            /\ ~creation'.chaserError =>
                  queue' = queue \o [i \in DOMAIN creation'.chasers |->
                                        QueueRow(creation'.chasers[i])]]_vars

\* C26, its case: a creation whose calendar request failed has answered
\* 201, its task is pending and its entries are in the queue.
C26_Witness ==
    /\ creation.pc = "done"
    /\ creation.calendar = "failed"
    /\ creation.reply = 201
    /\ ~creation.chaserError
    /\ tasks[creation.task_id].status = "pending"
    /\ Len(queue) = Len(creation.chasers)
    /\ Len(queue) >= 1

\* C23: no step of a dispatch cycle makes an entry failed, however often
\* its request fails; an entry becomes failed only in the step in which a
\* failure callback for it updates the queue.
C23_OnlyCallbackFails ==
    [][\A e \in Entries :
          (queue'[e].status = "failed" /\ queue[e].status # "failed") =>
              /\ \A c \in Slots : cycles'[c] = cycles[c]
              /\ \E h \in Slots :
                    CallbackStart(h, "chaser-failed") /\ handlers'[h].qid = e]_vars

\* C23, its case: a request has failed and left its entry pending with the
\* attempt recorded, while another entry was made failed by a callback that
\* logged the failure.
C23_Witness ==
    \E e \in Entries : \E f \in Entries :
        /\ queue[e].status = "pending"
        /\ queue[e].last_attempt_at # NULL
        /\ queue[f].status = "failed"
        /\ \E i \in DOMAIN logs : logs[i].queue_id = f /\ logs[i].status = "failed"

\* C24: at most one dispatch cycle is in progress at any time.
C24_OneCycleAtATime ==
    Cardinality({c \in Slots : cycles[c].pc # "idle"}) <= 1

\* C25: an invocation of the dispatcher through the cron endpoint performs
\* a dispatch cycle over the due pending entries, and the endpoint answers
\* with success only when a cycle was performed.
C25_CronPerformsCycle ==
    [][\A h \in Slots :
          (/\ HandlerStart(h, "cron")
           /\ \E e \in Entries : IsDue(queue[e], clock))
              => /\ \E c \in Slots : Selects(c)
                 /\ handlers'[h].pc # "success"]_vars

\* C27: when the insert into chaser_logs fails after a callback has updated
\* the entry, the callback goes on as after a successful insert, to its
\* answer of success, and the entry, the tasks and the log keep what they
\* had: nothing is rolled back.
C27_LogFailureKeepsStatus ==
    [][\A h \in Slots :
          /\ (HandlerStep(h, "chaser-failed", "log") /\ logs' = logs) =>
                /\ queue' = queue
                /\ tasks' = tasks
                /\ handlers'[h] = IdleHandler
          /\ (HandlerStep(h, "chaser-sent", "log") /\ logs' = logs) =>
                /\ queue' = queue
                /\ tasks' = tasks
                /\ handlers'[h] = [handlers[h] EXCEPT !.pc = "task"]]_vars

\* C27, its case: a failure callback has come and gone, its entry is failed
\* and no delivery log was written.
C27_Witness ==
    \E e \in Entries :
        /\ queue[e].status = "failed"
        /\ logs = <<>>
        /\ \A h \in Slots : handlers[h].pc = "idle"

\* C28: an entry becomes sent or failed only from triggered; a callback for
\* an entry that is still pending does not make it sent or failed.
C28_OutcomeOnlyFromTriggered ==
    [][\A e \in Entries :
          (/\ queue'[e].status \in {"sent", "failed"}
           /\ queue'[e].status # queue[e].status)
              => queue[e].status = "triggered"]_vars

\* C29: with a sink that reports the outcome of every request it accepted,
\* once, every entry of an accepted request is eventually sent or failed
\* and stays so, also when the callback is handled before the dispatcher
\* has written triggered.
C29_AcceptedEventuallySettled ==
    \A e \in Pair :
        (sink[e] > 0) ~> [](queue[e].status \in {"sent", "failed"})

\* C30: with cycles begun and continued fairly, every entry that is pending
\* and due, and whose task stays pending, is eventually sent to the sink,
\* also while earlier entries keep failing and are retried without bound.
\* (Every entry of the backlog is pending and due from the start, and no
\* task changes.)
C30_DueEventuallyRequested ==
    \A e \in Backlog :
        <>(\E c \in Slots :
              cycles[c].pc = "waiting" /\ cycles[c].request.queue_id = e)

\* The step in which cycle c sends the request for the row it is at.
Posts(c) == cycles[c].pc = "loop" /\ cycles'[c].pc = "waiting"

\* C37: a request carries action_type create exactly when the task has no
\* calendar event reference at the moment the request is sent, and notify
\* otherwise.
C37_CreateOnlyWithoutEvent ==
    [][\A c \in Slots : Posts(c) =>
          (cycles'[c].request.action_type = "create"
              <=> tasks[cycles'[c].request.task_id].calendar_event_id = NULL)]_vars

\* C38: the escalation tier a request carries is the escalation tier stored
\* on the entry it is for, also when the entry is sent late or after the
\* due date of the task was changed.
C38_TierOfEntry ==
    [][\A c \in Slots : Posts(c) =>
          cycles'[c].request.escalation_tier
              = queue[cycles'[c].request.queue_id].escalation_tier]_vars

\* C39: a request is addressed to the assignee email the task has when the
\* request is sent.
C39_CurrentAssignee ==
    [][\A c \in Slots : Posts(c) =>
          cycles'[c].request.recipient_email
              = tasks[cycles'[c].request.task_id].assignee_email]_vars

\* The entry has a failed request behind it and is pending.
Retried(e) == queue[e].status = "pending" /\ queue[e].last_attempt_at # NULL

\* The ids of the rows of a batch.
IdsOf(b) == {b[i].id : i \in DOMAIN b}

\* C31: the record of a failed request leaves the entry's status and
\* scheduled instant as they were, and every cycle that runs its query
\* afterwards selects each pending entry that has a failed request behind it.
C31_FailedSelectedAgain ==
    [][\A c \in Slots :
          /\ CycleStep(c, "failed") =>
                LET e == Current(cycles[c]).id IN
                    /\ queue'[e].status = queue[e].status
                    /\ queue'[e].scheduled_at = queue[e].scheduled_at
          /\ Selects(c) =>
                \A e \in DOMAIN queue :
                    Retried(e) => e \in IdsOf(cycles'[c].batch)]_vars

\* What is left for a cycle to do: three steps for each row of its batch,
\* less those done for the row it is at.
Measure(cy) ==
    3 * Len(cy.batch)
        - (IF cy.pc = "waiting" THEN 1
           ELSE IF cy.pc \in {"accepted", "failed"} THEN 2
           ELSE 0)

\* C33: a cycle takes at most BatchLimit entries, and each of its steps,
\* the answer or the timeout of the sink among them, leaves it less to do;
\* so it ends.
C33_CycleTerminates ==
    [][\A c \in Slots :
          /\ Selects(c) =>
                /\ Len(cycles'[c].batch) <= BatchLimit
                /\ cycles'[c].pc = "loop"
          /\ (cycles[c].pc # "idle" /\ cycles'[c] # cycles[c]) =>
                /\ Measure(cycles'[c]) < Measure(cycles[c])
                /\ Measure(cycles'[c]) >= 0
                /\ cycles'[c].pc = "idle" <=> Measure(cycles'[c]) = 0]_vars

\* C33, its case: a cycle that took a full batch has ended, after requests
\* that failed and requests that were accepted.
C33_Witness ==
    /\ \A c \in Slots : cycles[c].pc = "idle"
    /\ Cardinality({e \in DOMAIN queue : queue[e].last_attempt_at # NULL}) = BatchLimit
    /\ \E e \in DOMAIN queue : queue[e].status = "triggered"
    /\ \E e \in DOMAIN queue : Retried(e)

\* C34: a failed request does not end the cycle: the cycle goes on to the
\* next row of its batch, ends only after the last row, and handles every
\* row it comes to, cancelling it when its task was completed and sending a
\* request for it otherwise.
C34_FailureDoesNotStopBatch ==
    [][\A c \in Slots :
          /\ (CycleStep(c, "failed") /\ Len(cycles[c].batch) > 1) =>
                /\ cycles'[c].pc = "loop"
                /\ cycles'[c].batch = Tail(cycles[c].batch)
          /\ (cycles[c].pc # "idle" /\ cycles'[c].pc = "idle") =>
                Len(cycles[c].batch) = 1
          /\ CycleStep(c, "loop") =>
                LET row == Current(cycles[c]) IN
                    IF row.task_status = "completed"
                    THEN queue'[row.id].status = "cancelled"
                    ELSE /\ cycles'[c].pc = "waiting"
                         /\ cycles'[c].request.queue_id = row.id]_vars

\* C34, its case: the only cycle run so far has a request in flight for a
\* row that follows one whose request failed.
C34_Witness ==
    /\ started = 1
    /\ \E c \in Slots :
          /\ cycles[c].pc = "waiting"
          /\ \E e \in DOMAIN queue :
                Retried(e) /\ e # cycles[c].request.queue_id

\* The delivery logs with status sent of task t.
SentLogs(t) == {i \in DOMAIN logs : logs[i].task_id = t /\ logs[i].status = "sent"}

\* C35: whenever no callback is in progress, the counter of every task
\* equals the number of its delivery logs with status sent.
C35_CounterMatchesSentLogs ==
    (\A h \in Slots : handlers[h].kind \notin {"chaser-sent", "chaser-failed"})
        => \A t \in DOMAIN tasks :
               tasks[t].total_chasers_sent = Cardinality(SentLogs(t))

\* C36: the counter of a task never goes down, and it changes only in the
\* last step of a success callback for an entry of that task; dispatch
\* cycles, failure callbacks, task updates and completion, changes of the
\* due date and the calendar callbacks leave it as it is.
C36_CounterOnlyBySuccessCallback ==
    [][\A t \in DOMAIN tasks :
          /\ tasks'[t].total_chasers_sent >= tasks[t].total_chasers_sent
          /\ tasks'[t].total_chasers_sent # tasks[t].total_chasers_sent =>
                \E h \in Slots :
                    /\ HandlerStep(h, "chaser-sent", "rpc")
                    /\ handlers[h].task_id = t]_vars

\* C36, its case: a task that a success callback has counted for was then
\* completed, after its due date and its calendar columns were written and
\* a request for one of its entries had failed.
C36_Witness ==
    /\ tasks[1].total_chasers_sent = 1
    /\ tasks[1].status = "completed"
    /\ tasks[1].has_conflict
    /\ tasks[1].calendar_event_id # NULL
    /\ tasks[1].due_date \in LaterDues
    /\ \E e \in DOMAIN queue : queue[e].last_attempt_at # NULL

\* C32: with cycles begun and continued fairly, the entries of the task
\* that was completed while they were pending are eventually all cancelled.
\* (From the start the second task is completed and its entries are pending
\* and due; an entry that is cancelled stays so.)
C32_PendingOfCompletedCancelled ==
    <>(\A e \in Overfull :
          CompletedTaskOf(e) = 2 => queue[e].status = "cancelled")

====
